---- MODULE Spec2Model ----
(***************************************************************************)
(* Model of the OU investment modeler: the Monte Carlo path engine          *)
(* (monte_carlo.py, MonteCarloSimulator), the percentile aggregation at the *)
(* end of simulate(), the loan ledger (calculate_loan_evolution), portfolio *)
(* validation (etf_fetcher.py, validate_portfolio) and the request handler  *)
(* (app.py, run_simulation).                                                *)
(*                                                                          *)
(* Money amounts are exact rationals <<numerator, denominator>>: the        *)
(* program's floats are read as the real numbers they approximate.          *)
(* An Optional value of the program is a set: {} for None, {v} for v.       *)
(***************************************************************************)
EXTENDS Integers, Sequences, FiniteSets, TLC

(***************************************************************************)
(* Bounds of the model.                                                     *)
(***************************************************************************)
MaxSims == 2
MaxYears == 2
MaxRuns == 2

(* Default first simulated year, simulate(start_year=2026). *)
FirstYear == 2026

(***************************************************************************)
(* Exact rational arithmetic.                                               *)
(***************************************************************************)
Abs(x) == IF x < 0 THEN -x ELSE x

RECURSIVE GCD(_, _)
GCD(a, b) == IF b = 0 THEN a ELSE GCD(b, a % b)

Norm(n, d) ==
    LET s == IF d < 0 THEN -1 ELSE 1
        g == GCD(Abs(n), Abs(d))
    IN  <<(s * n) \div g, (s * d) \div g>>

R(n) == <<n, 1>>
Zero == R(0)
RAdd(a, b) ==
    LET g == GCD(a[2], b[2])
    IN  Norm(a[1] * (b[2] \div g) + b[1] * (a[2] \div g), (a[2] \div g) * b[2])
RNeg(a) == <<-a[1], a[2]>>
RSub(a, b) == RAdd(a, RNeg(b))
RMul(a, b) ==
    LET g1 == GCD(Abs(a[1]), b[2])
        g2 == GCD(Abs(b[1]), a[2])
    IN  Norm((a[1] \div g1) * (b[1] \div g2), (a[2] \div g2) * (b[2] \div g1))
RDiv(a, b) == RMul(a, Norm(b[2], b[1]))
RLt(a, b) ==
    LET g == GCD(a[2], b[2])
    IN  a[1] * (b[2] \div g) < b[1] * (a[2] \div g)
RLeq(a, b) == a = b \/ RLt(a, b)
RMax(a, b) == IF RLt(a, b) THEN b ELSE a

RECURSIVE RSumSeq(_)
RSumSeq(s) == IF s = <<>> THEN Zero ELSE RAdd(Head(s), RSumSeq(Tail(s)))

(***************************************************************************)
(* State.                                                                   *)
(***************************************************************************)
VARIABLES
    rng,                    \* state of the process-wide generator np.random
    simulator,              \* the MonteCarloSimulator object: {} or {fields}
    args,                   \* arguments of the running simulate() call
    pc,                     \* position of the engine
    sim, year_idx, month,   \* loop indices of simulate()
    balance,
    year_start_balance,
    year_withdrawal_budget,
    year_payout_gross,
    current_monthly_contrib,
    paths, payouts_paths,   \* the trajectory and withdrawal matrices
    writes,                 \* how often each cell of paths was assigned
    contributed,            \* per path and year, the contributions added to the balance
    deductions,             \* mortgage lump sums deducted on the current path
    last,                   \* which path's month step ran last, and what it did
    result,                 \* SimulationResult: <<>> or <<fields>>
    runs,                   \* the completed simulate() calls of the process
    \* calculate_loan_evolution
    lpc,                    \* position of the loan calculator
    largs,                  \* its arguments: {} or {fields}
    lyear_idx,              \* index of the year being processed
    months,                 \* contribution months of the year
    current_loans,          \* person -> balance
    prev_loans,             \* current_loans as the last step found it
    payout_amount, total_loan, factor,  \* locals of step 3, {} until assigned
    loan_evolution,         \* person -> list of yearly balances
    \* validate_portfolio
    etfs,                   \* the list it is called with: {} or {list}
    verdict,                \* what it returned: {} or {(is_valid, error_message)}
    \* app.run_simulation
    rpc,                    \* position of the request handler
    params,                 \* request.json: {} or {fields}
    etf_list,               \* the (isin, allocation) pairs parsed from it
    fetched,                \* what fetch_etf_data returned so far, {} for None
    portfolio,              \* the PortfolioETF list built so far
    response                \* the JSON answer: {} or {fields}

engineVars ==
    <<rng, simulator, args, pc, sim, year_idx, month, balance,
      year_start_balance, year_withdrawal_budget, year_payout_gross, current_monthly_contrib,
      paths, payouts_paths, writes, contributed, deductions, last, result,
      runs>>

loanVars ==
    <<lpc, largs, lyear_idx, months, current_loans, prev_loans,
      payout_amount, total_loan, factor, loan_evolution>>

validateVars == <<etfs, verdict>>

requestVars == <<rpc, params, etf_list, fetched, portfolio, response>>

vars == <<engineVars, loanVars, validateVars, requestVars>>

(***************************************************************************)
(* Inputs.  One money unit stands for 1000.                                 *)
(***************************************************************************)
Contrib(n, m) == [name |-> n, monthly_amount |-> R(m)]

ContributionLists ==
    { <<Contrib("Mart", 1)>>,
      <<Contrib("Mart", 1), Contrib("Kerli", 2)>> }

(* RentalProperty; the mortgage fields read only by                        *)
(* _calculate_mortgage_balance, which simulate() never calls, are left out. *)
Rentals ==
    [include : BOOLEAN, sell : BOOLEAN,
     sale_year : FirstYear .. FirstYear + MaxYears,
     monthly_income : {R(1)}, mart_share : {R(3)}, kerli_share : {R(2)}]

RentalOptions ==
    {{}} \cup {{r} : r \in {x \in Rentals :
                              /\ x.include \/ ~x.sell
                              /\ x.sell \/ x.sale_year = FirstYear}}

(* PortfolioETF.  Volatilities are kept in units of sqrt(12), so that the   *)
(* division by sqrt(12) of simulate() is exact.                             *)
ETF(i, w, ret, vol) ==
    [isin |-> i, allocation |-> w, annual_return |-> ret, annual_volatility |-> vol]

Portfolios ==
    { <<ETF("A", R(1), R(0), R(0))>>,
      <<ETF("B", R(1), R(0), R(1))>>,
      <<ETF("C", R(1), R(-12), R(1))>> }

Seeds == {{}, {0}}

SimulatorConfigs ==
    [portfolio : Portfolios, contributions : ContributionLists,
     rental : RentalOptions, n_simulations : {1, MaxSims}, seed : Seeds]

(* The single-participant list is explored without a rental only. *)
EngineSimulators ==
    { c \in SimulatorConfigs : Len(c.contributions) = 1 => c.rental = {} }

OptYears == {{}} \cup {{y} : y \in FirstYear .. FirstYear + 1}

SimulateArgs ==
    { a \in [start_year : {FirstYear},
             start_month : 1 .. 12,
             end_year : FirstYear .. FirstYear + MaxYears - 1,
             starting_capital : {R(0), R(5)},
             annual_costs : {R(0), R(12)},
             withdrawal_rate : {R(0), <<1, 2>>},
             withdrawal_start_year : {FirstYear, FirstYear + 1},
             withdrawal_mode : {"loan", "dividend"},
             contribution_end_year : OptYears,
             contribution_change_year : OptYears,
             contribution_change_factor : {R(1), R(2)}] :
        /\ a.withdrawal_rate = R(0) =>
               a.withdrawal_start_year = FirstYear /\ a.withdrawal_mode = "loan"
        /\ (a.contribution_change_year = {}) = (a.contribution_change_factor = R(1)) }

(* The scenarios explored: one optional feature at a time, a starting      *)
(* capital also together with withdrawals; every start month for the plain *)
(* and the financed-by-pool scenarios.                                      *)
Features(s, a) ==
    (IF s.rental # {} THEN 1 ELSE 0)
    + (IF a.starting_capital # R(0) /\ a.withdrawal_rate = R(0) THEN 1 ELSE 0)
    + (IF a.annual_costs # R(0) THEN 1 ELSE 0)
    + (IF a.withdrawal_rate # R(0) THEN 1 ELSE 0)
    + (IF a.contribution_end_year # {} \/ a.contribution_change_year # {}
       THEN 1 ELSE 0)

PoolFinanced(s) == \E r \in s.rental : r.include /\ r.sell

Explored(s, a) ==
    /\ Features(s, a) <= 1
    /\ a.start_month \in {1, 8, 12} \/ PoolFinanced(s) \/ Features(s, a) = 0
    /\ Len(s.contributions) = 1 => Features(s, a) = 0

(***************************************************************************)
(* The process-wide generator.  seed() sets its state; every normal() draw *)
(* reads the state and advances it.                                         *)
(***************************************************************************)
RngStates == 0 .. 2
SeedState(s) == s % 3
NextRng(r) == (r + 1) % 3
StandardNormal(r) == r - 1

(* np.random.normal(loc, scale) = loc + scale * standard normal draw *)
Normal(r, loc, scale) == RAdd(loc, RMul(scale, R(StandardNormal(r))))

(***************************************************************************)
(* MonteCarloSimulator.simulate: helpers.                                   *)
(***************************************************************************)
The(S) == CHOOSE x \in S : TRUE
Simulator == The(simulator)

(* _calculate_portfolio_return *)
PortfolioReturn(pf) ==
    RSumSeq([i \in 1 .. Len(pf) |->
                RMul(pf[i].allocation, pf[i].annual_return)])

(* the square root of a rational that has a rational one *)
RSqrt(x) ==
    CHOOSE r \in {Norm(n, d) : n \in 0 .. 4, d \in 1 .. 4} : RMul(r, r) = x

(* _calculate_portfolio_volatility *)
PortfolioVolatility(pf) ==
    RSqrt(RSumSeq([i \in 1 .. Len(pf) |->
                      RMul(RMul(pf[i].allocation, pf[i].allocation),
                           RMul(pf[i].annual_volatility,
                                pf[i].annual_volatility))]))

(* The object __init__ builds; seed records the seed it was given. *)
NewSimulator(c) ==
    [portfolio |-> c.portfolio, contributions |-> c.contributions,
     rental |-> c.rental, n_simulations |-> c.n_simulations, seed |-> c.seed,
     portfolio_return |-> PortfolioReturn(c.portfolio),
     portfolio_volatility |-> PortfolioVolatility(c.portfolio)]

(* len(list(range(start_year, end_year + 1))) *)
NYearsExclusive(a) ==
    IF a.end_year - a.start_year > 0 THEN a.end_year - a.start_year ELSE 0
NYears(a) ==
    IF a.end_year - a.start_year + 1 > 0 THEN a.end_year - a.start_year + 1 ELSE 0
Years(a) == [i \in 0 .. NYears(a) - 1 |-> a.start_year + i]

ZeroMatrix(n, m) == [i \in 0 .. n - 1 |-> [j \in 0 .. m - 1 |-> Zero]]
ZeroCounts(n, m) == [i \in 0 .. n - 1 |-> [j \in 0 .. m - 1 |-> 0]]

MonthlyVol(s) == s.portfolio_volatility
MonthlyReturn(s) == RDiv(s.portfolio_return, R(12))

FirstMonthJanuary(a, year) == 0
FirstMonth(a, year) == IF year = a.start_year THEN a.start_month - 1 ELSE 0

WithdrawalBudgetEveryYear(a, year, bal) ==
    IF RLt(Zero, a.withdrawal_rate) THEN RMul(bal, a.withdrawal_rate) ELSE Zero

WithdrawalBudget(a, year, bal) ==
    IF year >= a.withdrawal_start_year /\ RLt(Zero, a.withdrawal_rate)
    THEN RMul(bal, a.withdrawal_rate)
    ELSE Zero

MonthlySum(contribs) ==
    RSumSeq([i \in 1 .. Len(contribs) |-> contribs[i].monthly_amount])

CurrentMonthlyContrib(s, a, year) ==
    IF \E e \in a.contribution_end_year : year >= e
    THEN Zero
    ELSE IF \E c \in a.contribution_change_year : year >= c
         THEN RMul(MonthlySum(s.contributions), a.contribution_change_factor)
         ELSE MonthlySum(s.contributions)

MonthlyWithdrawalUnguarded(budget) == RDiv(budget, R(12))
MonthlyWithdrawal(budget) ==
    IF RLt(Zero, budget) THEN RDiv(budget, R(12)) ELSE Zero

RentalCredited(s, year, m) ==
    \E r \in s.rental :
        /\ r.include /\ r.sell
        /\ \/ year > r.sale_year
           \/ year = r.sale_year /\ m >= 6

MortgageDeducted(s, year, m) ==
    \E r \in s.rental :
        r.include /\ r.sell /\ year = r.sale_year /\ m = 6

RentalIncome(s) == The(s.rental).monthly_income
MortgageShares(s) == RAdd(The(s.rental).mart_share, The(s.rental).kerli_share)

(* The balance after one pass of the month loop body. *)
MonthBody(s, a, year, m, bal, budget, r) ==
    LET b1 == RAdd(bal, CurrentMonthlyContrib(s, a, year))
        b2 == RSub(b1, RDiv(a.annual_costs, R(12)))
        b3 == RSub(b2, MonthlyWithdrawal(budget))
        b4 == IF RentalCredited(s, year, m) THEN RAdd(b3, RentalIncome(s)) ELSE b3
        b5 == IF MortgageDeducted(s, year, m) THEN RSub(b4, MortgageShares(s)) ELSE b4
        random_return == Normal(r, MonthlyReturn(s), MonthlyVol(s))
    IN  RMul(b5, RAdd(R(1), random_return))

NetPayout(a, gross) ==
    IF a.withdrawal_mode = "dividend" THEN RMul(gross, <<39, 50>>) ELSE gross

(***************************************************************************)
(* Percentile aggregation (np.percentile, linear interpolation; np.mean).   *)
(***************************************************************************)
Column(mat, n, j) == [i \in 1 .. n |-> mat[i - 1][j]]

Unsorted(col) == col
Sorted(col) == SortSeq(col, RLt)

(* The q-th percentile of the ascending sequence a. *)
Interpolate(a, q) ==
    LET n == Len(a)
        pos == q * (n - 1)
        lo == pos \div 100
        hi == IF lo + 1 < n THEN lo + 1 ELSE lo
        t == Norm(pos % 100, 100)
    IN  RAdd(a[lo + 1], RMul(RSub(a[hi + 1], a[lo + 1]), t))

Percentile(col, q) == Interpolate(Sorted(col), q)

Mean(col) == RDiv(RSumSeq(col), R(Len(col)))

(* np.percentile(mat, q, axis=0) for every q of qs: one row per q *)
PercentileRows(mat, n, ny, qs) ==
    LET order == [j \in 0 .. ny - 1 |-> Sorted(Column(mat, n, j))]
    IN  [q \in qs |-> [j \in 0 .. ny - 1 |-> Interpolate(order[j], q)]]

SimulationResult(s, a, mat, pay) ==
    LET n == s.n_simulations
        ny == NYears(a)
        table == PercentileRows(mat, n, ny, 0 .. 100)
    IN  [years |-> Years(a),
         p2 |-> table[2],
         p10 |-> table[10],
         p50 |-> table[50],
         p90 |-> table[90],
         p98 |-> table[98],
         mean |-> [j \in 0 .. ny - 1 |-> Mean(Column(mat, n, j))],
         percentiles |-> table,
         payouts_p50 |-> PercentileRows(pay, n, ny, {50})[50]]

(***************************************************************************)
(* The engine's steps.                                                      *)
(***************************************************************************)
notEngine == <<loanVars, validateVars, requestVars>>

NoStep == [path |-> 0, year |-> 0, month |-> 0, credited |-> FALSE, deducted |-> FALSE]

EngineInit ==
    /\ rng \in RngStates
    /\ simulator = {}
    /\ args = {}
    /\ pc = "idle"
    /\ sim = 0 /\ year_idx = 0 /\ month = 0
    /\ balance = Zero
    /\ year_start_balance = Zero
    /\ year_withdrawal_budget = Zero
    /\ year_payout_gross = Zero
    /\ current_monthly_contrib = Zero
    /\ paths = <<>> /\ payouts_paths = <<>> /\ writes = <<>>
    /\ contributed = <<>>
    /\ deductions = 0
    /\ last = NoStep
    /\ result = <<>>
    /\ runs = <<>>

(* MonteCarloSimulator.__init__ *)
DoConstruct(c) ==
    /\ simulator' = {NewSimulator(c)}
    /\ rng' = IF c.seed = {} THEN rng ELSE SeedState(The(c.seed))
    /\ pc' = "constructed"
    /\ UNCHANGED <<contributed, year_start_balance, args, sim, year_idx,
                   month, balance, year_withdrawal_budget, year_payout_gross,
                   current_monthly_contrib, paths, payouts_paths, writes,
                   deductions, last, result, runs>>

(* simulate(): lines up to the path loop *)
DoSimulateBegin(a) ==
    /\ args' = {a}
    /\ paths' = ZeroMatrix(Simulator.n_simulations, NYears(a))
    /\ payouts_paths' = ZeroMatrix(Simulator.n_simulations, NYears(a))
    /\ writes' = ZeroCounts(Simulator.n_simulations, NYears(a))
    /\ contributed' = ZeroMatrix(Simulator.n_simulations, NYears(a))
    /\ sim' = 0
    /\ result' = <<>>
    /\ pc' = "path"
    /\ UNCHANGED <<year_start_balance, rng, simulator, year_idx, month,
                   balance, year_withdrawal_budget, year_payout_gross,
                   current_monthly_contrib, deductions, last, runs>>

Args == The(args)
Year == Args.start_year + year_idx

PathBegin ==
    /\ pc = "path" /\ sim < Simulator.n_simulations
    /\ balance' = Args.starting_capital
    /\ year_idx' = 0
    /\ deductions' = 0
    /\ IF NYears(Args) > 0
       THEN pc' = "year" /\ sim' = sim
       ELSE pc' = "path" /\ sim' = sim + 1
    /\ UNCHANGED <<contributed, year_start_balance, rng, simulator, args,
                   month, year_withdrawal_budget, year_payout_gross,
                   current_monthly_contrib, paths, payouts_paths, writes,
                   last, result, runs>>
    /\ UNCHANGED notEngine

YearBegin ==
    /\ pc = "year"
    /\ year_start_balance' = balance
    /\ month' = FirstMonth(Args, Year)
    /\ year_withdrawal_budget' = WithdrawalBudget(Args, Year, balance)
    /\ year_payout_gross' = Zero
    /\ pc' = "month"
    /\ UNCHANGED <<contributed, rng, simulator, args, sim, year_idx, balance,
                   current_monthly_contrib, paths, payouts_paths, writes,
                   deductions, last, result, runs>>
    /\ UNCHANGED notEngine

MonthStep ==
    /\ pc = "month" /\ month < 12
    /\ current_monthly_contrib' = CurrentMonthlyContrib(Simulator, Args, Year)
    /\ contributed' =
           [contributed EXCEPT
               ![sim][year_idx] = RAdd(@, CurrentMonthlyContrib(Simulator, Args, Year))]
    /\ balance' = MonthBody(Simulator, Args, Year, month, balance,
                            year_withdrawal_budget, rng)
    /\ year_payout_gross' =
           RAdd(year_payout_gross, MonthlyWithdrawal(year_withdrawal_budget))
    /\ rng' = NextRng(rng)
    /\ last' = [path |-> sim, year |-> Year, month |-> month,
                credited |-> RentalCredited(Simulator, Year, month),
                deducted |-> MortgageDeducted(Simulator, Year, month)]
    /\ deductions' =
           IF MortgageDeducted(Simulator, Year, month)
           THEN deductions + 1 ELSE deductions
    /\ month' = month + 1
    /\ UNCHANGED <<year_start_balance, simulator, args, pc, sim, year_idx,
                   year_withdrawal_budget, paths, payouts_paths, writes,
                   result, runs>>
    /\ UNCHANGED notEngine

YearEnd ==
    /\ pc = "month" /\ month = 12
    /\ paths' = [paths EXCEPT ![sim][year_idx] = balance]
    /\ payouts_paths' =
           [payouts_paths EXCEPT ![sim][year_idx] = NetPayout(Args, year_payout_gross)]
    /\ writes' = [writes EXCEPT ![sim][year_idx] = @ + 1]
    /\ IF year_idx + 1 < NYears(Args)
       THEN /\ year_idx' = year_idx + 1
            /\ pc' = "year"
            /\ sim' = sim
       ELSE /\ year_idx' = year_idx
            /\ pc' = "path"
            /\ sim' = sim + 1
    /\ UNCHANGED <<contributed, year_start_balance, rng, simulator, args,
                   month, balance, year_withdrawal_budget, year_payout_gross,
                   current_monthly_contrib, deductions, last, result, runs>>
    /\ UNCHANGED notEngine

Aggregate ==
    /\ pc = "path" /\ sim = Simulator.n_simulations
    /\ result' = <<SimulationResult(Simulator, Args, paths, payouts_paths)>>
    /\ runs' = Append(runs, [simulator |-> Simulator, args |-> Args,
                             paths |-> paths, payouts_paths |-> payouts_paths])
    /\ pc' = "done"
    /\ UNCHANGED <<contributed, year_start_balance, rng, simulator, args, sim,
                   year_idx, month, balance, year_withdrawal_budget,
                   year_payout_gross, current_monthly_contrib, paths,
                   payouts_paths, writes, deductions, last>>
    /\ UNCHANGED notEngine

(***************************************************************************)
(* calculate_loan_evolution.                                                *)
(***************************************************************************)
LArgs == The(largs)
LYear == LArgs.years[lyear_idx]
Persons == DOMAIN current_loans

RECURSIVE RSumSet(_, _)
RSumSet(f, S) ==
    IF S = {} THEN Zero
    ELSE LET x == CHOOSE y \in S : TRUE
         IN  RAdd(f[x], RSumSet(f, S \ {x}))

(* sum(current_loans.values()) *)
Total(loans) == RSumSet(loans, DOMAIN loans)

(* contrib_map.get(person, 0): a later entry of the list replaces an earlier *)
ContribGet(contribs, person) ==
    LET hits == {i \in 1 .. Len(contribs) : contribs[i].name = person}
    IN  IF hits = {} THEN Zero
        ELSE contribs[CHOOSE i \in hits : \A k \in hits : k <= i].monthly_amount

MonthsInYearExclusive(a, year) ==
    IF year = a.years[0] THEN 12 - a.start_month ELSE 12

MonthsInYear(a, year) ==
    IF year = a.years[0] THEN 12 - a.start_month + 1 ELSE 12

LoanMonthlyScaleFirst(a, person, year) ==
    IF \E c \in a.contribution_change_year : year >= c
    THEN RMul(ContribGet(a.contributions, person), a.contribution_change_factor)
    ELSE IF \E e \in a.contribution_end_year : year >= e
         THEN Zero
         ELSE ContribGet(a.contributions, person)

LoanMonthly(a, person, year) ==
    IF \E e \in a.contribution_end_year : year >= e
    THEN Zero
    ELSE IF \E c \in a.contribution_change_year : year >= c
         THEN RMul(ContribGet(a.contributions, person), a.contribution_change_factor)
         ELSE ContribGet(a.contributions, person)

(* step 1 *)
Accrued(a, loans, year) ==
    [p \in DOMAIN loans |->
        RAdd(loans[p], RMul(LoanMonthly(a, p, year), R(MonthsInYear(a, year))))]

RepaymentDueEveryYear(a, year) ==
    \E r \in a.rental : r.include /\ r.sell

RepaymentDue(a, year) ==
    \E r \in a.rental : r.include /\ r.sell /\ year = r.sale_year

(* step 2 *)
Repaid(a, loans, year) ==
    IF RepaymentDue(a, year)
    THEN [p \in DOMAIN loans |->
            IF p = "Mart" THEN RSub(loans[p], The(a.rental).mart_share)
            ELSE IF p = "Kerli" THEN RSub(loans[p], The(a.rental).kerli_share)
            ELSE loans[p]]
    ELSE loans

(* step 3: the guards, and the factor *)
PayoutRead(a, idx) == a.withdrawal_mode = "loan" /\ idx \in DOMAIN a.payouts

PaydownFactorUnclamped(T, w) == RDiv(RSub(T, w), T)
PaydownFactorInverted(T, w) == RMax(Zero, RDiv(RAdd(T, w), T))
PaydownFactor(T, w) == RMax(Zero, RDiv(RSub(T, w), T))

Scaled(loans, f) == [p \in DOMAIN loans |-> RMul(loans[p], f)]

LoanInit ==
    /\ lpc = "idle"
    /\ largs = {}
    /\ lyear_idx = 0
    /\ months = 12
    /\ current_loans = <<>>
    /\ prev_loans = <<>>
    /\ payout_amount = {} /\ total_loan = {} /\ factor = {}
    /\ loan_evolution = <<>>

notLoan == <<engineVars, validateVars, requestVars>>

(* the call, up to the year loop *)
DoLoanBegin(a) ==
    /\ largs' = {a}
    /\ current_loans' = a.starting_loans
    /\ prev_loans' = a.starting_loans
    /\ loan_evolution' = [p \in DOMAIN a.starting_loans |-> <<>>]
    /\ lyear_idx' = 0
    /\ lpc' = IF DOMAIN a.years = {} THEN "returned" ELSE "accrue"
    /\ UNCHANGED <<months, payout_amount, total_loan, factor>>

LoanAccrue ==
    /\ lpc = "accrue"
    /\ months' = MonthsInYear(LArgs, LYear)
    /\ prev_loans' = current_loans
    /\ current_loans' = Accrued(LArgs, current_loans, LYear)
    /\ payout_amount' = {} /\ total_loan' = {} /\ factor' = {}
    /\ lpc' = "repay"
    /\ UNCHANGED <<largs, lyear_idx, loan_evolution>>
    /\ UNCHANGED notLoan

LoanRepay ==
    /\ lpc = "repay"
    /\ prev_loans' = current_loans
    /\ current_loans' = Repaid(LArgs, current_loans, LYear)
    /\ lpc' = "paydown"
    /\ UNCHANGED <<largs, lyear_idx, months, payout_amount, total_loan, factor,
                   loan_evolution>>
    /\ UNCHANGED notLoan

LoanPaydown ==
    /\ lpc = "paydown"
    /\ prev_loans' = current_loans
    /\ LET read == PayoutRead(LArgs, lyear_idx)
           w == LArgs.payouts[lyear_idx]
           summed == read /\ RLt(Zero, w)
           T == Total(current_loans)
           scaled == summed /\ RLt(Zero, T)
       IN  /\ payout_amount' = IF read THEN {w} ELSE {}
           /\ total_loan' = IF summed THEN {T} ELSE {}
           /\ factor' = IF scaled THEN {PaydownFactor(T, w)} ELSE {}
           /\ current_loans' =
                  IF scaled THEN Scaled(current_loans, PaydownFactor(T, w))
                  ELSE current_loans
    /\ lpc' = "snapshot"
    /\ UNCHANGED <<largs, lyear_idx, months, loan_evolution>>
    /\ UNCHANGED notLoan

LoanSnapshot ==
    /\ lpc = "snapshot"
    /\ loan_evolution' =
           [p \in DOMAIN loan_evolution |->
               Append(loan_evolution[p], current_loans[p])]
    /\ IF lyear_idx + 1 \in DOMAIN LArgs.years
       THEN lyear_idx' = lyear_idx + 1 /\ lpc' = "accrue"
       ELSE lyear_idx' = lyear_idx /\ lpc' = "returned"
    /\ UNCHANGED <<largs, months, current_loans, prev_loans, payout_amount,
                   total_loan, factor>>
    /\ UNCHANGED notLoan

(***************************************************************************)
(* etf_fetcher.validate_portfolio.  An entry is (isin, allocation percent); *)
(* an error message is the sequence of its parts, "" is <<>>.               *)
(***************************************************************************)
RAbs(a) == <<Abs(a[1]), a[2]>>

(* str.strip() on the identifiers of the model *)
Strip(isin) == IF isin = " " THEN "" ELSE isin

(* the list comprehension that filters out empty entries *)
RECURSIVE NonEmptyEntries(_)
NonEmptyEntries(list) ==
    IF list = <<>> THEN <<>>
    ELSE IF Head(list).isin # "" /\ Strip(Head(list).isin) # ""
         THEN <<Head(list)>> \o NonEmptyEntries(Tail(list))
         ELSE NonEmptyEntries(Tail(list))

TotalAllocation(list) == RSumSeq([i \in 1 .. Len(list) |-> list[i].pct])

OutOfRange(e) == RLt(e.pct, R(0)) \/ RLt(R(100), e.pct)

SumOff(total) == RLt(<<1, 10>>, RAbs(RSub(total, R(100))))

FirstOutOfRange(list) ==
    list[CHOOSE i \in 1 .. Len(list) :
            OutOfRange(list[i]) /\ \A k \in 1 .. i - 1 : ~OutOfRange(list[k])]

ValidateNoRangeCheck(list) ==
    LET kept == NonEmptyEntries(list)
    IN  IF kept = <<>>
        THEN [is_valid |-> FALSE, error_message |-> <<"At least one ETF is required">>]
        ELSE IF SumOff(TotalAllocation(kept))
        THEN [is_valid |-> FALSE,
              error_message |-> <<"Allocations must sum to 100% (currently ",
                                  TotalAllocation(kept), "%)">>]
        ELSE [is_valid |-> TRUE, error_message |-> <<>>]

ValidatePortfolio(list) ==
    LET kept == NonEmptyEntries(list)
    IN  IF kept = <<>>
        THEN [is_valid |-> FALSE, error_message |-> <<"At least one ETF is required">>]
        ELSE IF SumOff(TotalAllocation(kept))
        THEN [is_valid |-> FALSE,
              error_message |-> <<"Allocations must sum to 100% (currently ",
                                  TotalAllocation(kept), "%)">>]
        ELSE IF \E i \in 1 .. Len(kept) : OutOfRange(kept[i])
        THEN [is_valid |-> FALSE,
              error_message |-> <<"Invalid allocation for ",
                                  FirstOutOfRange(kept).isin, ": ",
                                  FirstOutOfRange(kept).pct, "%">>]
        ELSE [is_valid |-> TRUE, error_message |-> <<>>]

ValidateInit == etfs = {} /\ verdict = {}

notValidate == <<engineVars, loanVars, requestVars>>

(***************************************************************************)
(* app.run_simulation: one POST /api/simulate.                              *)
(***************************************************************************)
Params == The(params)

Person(n, m, l) == [name |-> n, monthly |-> m, loan |-> l]

(* DEFAULT_CONFIG['contributions'] and ['starting_loans'] *)
DefaultPersons ==
    << Person("Person1", R(500), R(10000)), Person("Person2", R(500), R(10000)),
       Person("Person3", R(100), R(5000)), Person("Person4", R(100), R(5000)) >>

PersonsOf(q) == IF q.persons = <<>> THEN DefaultPersons ELSE q.persons

AppContributions(q) ==
    [i \in 1 .. Len(PersonsOf(q)) |->
        [name |-> PersonsOf(q)[i].name, monthly_amount |-> PersonsOf(q)[i].monthly]]

(* the dict built by the loop: a later person replaces an earlier namesake *)
AppStartingLoans(q) ==
    [n \in {PersonsOf(q)[i].name : i \in 1 .. Len(PersonsOf(q))} |->
        LET hits == {i \in 1 .. Len(PersonsOf(q)) : PersonsOf(q)[i].name = n}
        IN  PersonsOf(q)[CHOOSE i \in hits : \A k \in hits : k <= i].loan]

AppStartingCapital(q) ==
    IF RLt(Zero, q.starting_capital) THEN q.starting_capital
    ELSE Total(AppStartingLoans(q))

(* the ETF list: entries with an identifier and a positive allocation *)
RECURSIVE ParsedEtfs(_)
ParsedEtfs(items) ==
    IF items = <<>> THEN <<>>
    ELSE IF Strip(Head(items).isin) # "" /\ RLt(Zero, Head(items).allocation)
         THEN <<[isin |-> Strip(Head(items).isin), pct |-> Head(items).allocation]>>
              \o ParsedEtfs(Tail(items))
         ELSE ParsedEtfs(Tail(items))

AppRental(q) ==
    IF q.include_rental
    THEN {[include |-> TRUE, sell |-> q.repay_mortgage, sale_year |-> q.sale_year,
           monthly_income |-> q.rental_income,
           mart_share |-> q.adult1_mortgage_share,
           kerli_share |-> q.adult2_mortgage_share]}
    ELSE {}

(* the keyword arguments of simulator.simulate(...) *)
AppSimulateArgs(q) ==
    [start_year |-> q.start_year, start_month |-> q.start_month,
     end_year |-> q.end_year,
     starting_capital |-> AppStartingCapital(q),
     annual_costs |-> q.annual_costs,
     withdrawal_rate |-> RDiv(q.withdrawal_rate, R(100)),
     withdrawal_start_year |-> q.withdrawal_start_year,
     withdrawal_mode |-> IF q.withdrawal_mode = {} THEN "loan" ELSE The(q.withdrawal_mode),
     contribution_end_year |-> q.contribution_end_year,
     contribution_change_year |-> q.contribution_change_year,
     contribution_change_factor |-> q.contribution_change_factor]

(* the keyword arguments of calculate_loan_evolution(...) *)
AppLoanArgs(q, res) ==
    [starting_loans |-> AppStartingLoans(q),
     contributions |-> AppContributions(q),
     years |-> res.years,
     rental |-> AppRental(q),
     start_month |-> q.start_month,
     payouts |-> res.payouts_p50,
     withdrawal_mode |->
         IF q.withdrawal_mode = {} THEN "dividend" ELSE The(q.withdrawal_mode),
     contribution_end_year |-> q.contribution_end_year,
     contribution_change_year |-> q.contribution_change_year,
     contribution_change_factor |-> q.contribution_change_factor]

(* round(x, 2): the nearest hundredth, a tie going to the even one *)
Round2(x) ==
    LET whole == x[1] \div x[2]
        n == (x[1] - whole * x[2]) * 100
        fl == n \div x[2]
        rem == n - fl * x[2]
        up == 2 * rem > x[2] \/ (2 * rem = x[2] /\ fl % 2 = 1)
    IN  Norm(whole * 100 + (IF up THEN fl + 1 ELSE fl), 100)

RoundAll(row) == [j \in DOMAIN row |-> Round2(row[j])]

(* SimulationResult.to_dict() *)
ToDict(res) ==
    [years |-> res.years,
     p2 |-> RoundAll(res.p2), p10 |-> RoundAll(res.p10),
     p50 |-> RoundAll(res.p50), p90 |-> RoundAll(res.p90),
     p98 |-> RoundAll(res.p98), mean |-> RoundAll(res.mean),
     payouts_p50 |-> RoundAll(res.payouts_p50),
     percentiles |-> [q \in DOMAIN res.percentiles |-> RoundAll(res.percentiles[q])]]

TotalLoans(res, evolution) ==
    [i \in DOMAIN res.years |->
        Round2(RSumSet([p \in DOMAIN evolution |-> evolution[p][i + 1]],
                       DOMAIN evolution))]

ProfitsP50(res, evolution) ==
    [i \in DOMAIN res.years |->
        Round2(RSub(res.p50[i], TotalLoans(res, evolution)[i]))]

(* The answer; of a successful one the simulation, the ledger and the       *)
(* totals derived from them are carried.                                    *)
Success(res, evolution, capital) ==
    [success |-> TRUE, error |-> <<>>,
     simulation |-> {ToDict(res)},
     loan_evolution |-> {evolution},
     total_loans |-> TotalLoans(res, evolution),
     profits_p50 |-> ProfitsP50(res, evolution),
     starting_capital |-> capital]

Failure(msg) == [success |-> FALSE, error |-> msg, simulation |-> {}, loan_evolution |-> {}]

ProceedsAlways(v) == TRUE
Proceeds(v) == v.is_valid

RequestInit ==
    /\ rpc = "idle"
    /\ params = {}
    /\ etf_list = <<>>
    /\ fetched = <<>>
    /\ portfolio = <<>>
    /\ response = {}

(* request.json is read and the persons, capital and ETFs are parsed; the   *)
(* legacy branch reads the undefined name item and raises.                  *)
DoRequest(q) ==
    /\ params' = {q}
    /\ IF q.etfs = {}
       THEN /\ response' = {Failure(<<"name 'item' is not defined">>)}
            /\ rpc' = "responded"
            /\ UNCHANGED etf_list
       ELSE /\ etf_list' = ParsedEtfs(The(q.etfs))
            /\ rpc' = "validate"
            /\ UNCHANGED response
    /\ UNCHANGED <<fetched, portfolio>>
    /\ UNCHANGED <<engineVars, loanVars, validateVars>>

AppValidate ==
    /\ rpc = "validate"
    /\ etfs' = {etf_list}
    /\ verdict' = {ValidatePortfolio(etf_list)}
    /\ IF Proceeds(ValidatePortfolio(etf_list))
       THEN rpc' = "fetch" /\ UNCHANGED response
       ELSE /\ response' = {Failure(ValidatePortfolio(etf_list).error_message)}
            /\ rpc' = "responded"
    /\ UNCHANGED <<params, etf_list, fetched, portfolio>>
    /\ UNCHANGED <<engineVars, loanVars>>

(* What the market-data lookup may answer for an identifier: None, or the   *)
(* annual return and volatility.                                            *)
MarketData(isin) ==
    {{}} \cup {{[annual_return |-> R(0),
                annual_volatility |-> IF isin = "A" THEN R(0) ELSE R(2)]}}

(* one pass of the fetch loop *)
AppFetch ==
    /\ rpc = "fetch" /\ Len(fetched) < Len(etf_list)
    /\ LET e == etf_list[Len(fetched) + 1]
       IN  \E data \in MarketData(e.isin) :
              /\ fetched' = Append(fetched, data)
              /\ IF data = {}
                 THEN /\ response' = {Failure(<<"Could not fetch data for ", e.isin>>)}
                      /\ rpc' = "responded"
                      /\ UNCHANGED portfolio
                 ELSE /\ portfolio' =
                             Append(portfolio,
                                    ETF(e.isin, RDiv(e.pct, R(100)),
                                        The(data).annual_return,
                                        The(data).annual_volatility))
                      /\ UNCHANGED <<response, rpc>>
    /\ UNCHANGED <<params, etf_list>>
    /\ UNCHANGED <<engineVars, loanVars, validateVars>>

(* The handler asks for 10000 paths; the model runs MaxSims. *)
AppConstruct ==
    /\ rpc = "fetch" /\ Len(fetched) = Len(etf_list)
    /\ DoConstruct([portfolio |-> portfolio,
                    contributions |-> AppContributions(Params),
                    rental |-> AppRental(Params),
                    n_simulations |-> MaxSims, seed |-> {}])
    /\ rpc' = "simulate"
    /\ UNCHANGED <<params, etf_list, fetched, portfolio, response>>
    /\ UNCHANGED <<loanVars, validateVars>>

AppSimulate ==
    /\ rpc = "simulate" /\ pc = "constructed"
    /\ DoSimulateBegin(AppSimulateArgs(Params))
    /\ UNCHANGED notEngine

AppLoans ==
    /\ rpc = "simulate" /\ pc = "done"
    /\ DoLoanBegin(AppLoanArgs(Params, result[1]))
    /\ rpc' = "loans"
    /\ UNCHANGED <<params, etf_list, fetched, portfolio, response>>
    /\ UNCHANGED <<engineVars, validateVars>>

AppRespond ==
    /\ rpc = "loans" /\ lpc = "returned"
    /\ response' = {Success(result[1], loan_evolution, AppStartingCapital(Params))}
    /\ rpc' = "responded"
    /\ UNCHANGED <<params, etf_list, fetched, portfolio>>
    /\ UNCHANGED <<engineVars, loanVars, validateVars>>

(***************************************************************************)
(* The engine used directly: one simulator, one simulate() call.            *)
(***************************************************************************)
Construct ==
    /\ pc = "idle"
    /\ \E c \in EngineSimulators : DoConstruct(c)
    /\ UNCHANGED notEngine

SimulateBegin ==
    /\ pc = "constructed"
    /\ \E a \in SimulateArgs : Explored(Simulator, a) /\ DoSimulateBegin(a)
    /\ UNCHANGED notEngine

Init == EngineInit /\ LoanInit /\ ValidateInit /\ RequestInit

Next ==
    \/ Construct
    \/ SimulateBegin
    \/ PathBegin
    \/ YearBegin
    \/ MonthStep
    \/ YearEnd
    \/ Aggregate

Spec == Init /\ [][Next]_vars

(***************************************************************************)
(* A process that constructs simulators and calls simulate() repeatedly.    *)
(***************************************************************************)
DetSimulators ==
    { [portfolio |-> <<ETF("B", R(1), R(0), R(1))>>,
       contributions |-> <<Contrib("Mart", 1)>>, rental |-> {},
       n_simulations |-> MaxSims, seed |-> sd] :
        sd \in {{}, {0}, {1}} }

DetArgs ==
    { a \in SimulateArgs :
        /\ a.start_month \in {1, 12} /\ a.end_year = a.start_year
        /\ \A d \in DetSimulators : Features(d, a) = 0 }

ConstructNext ==
    /\ pc \in {"idle", "done"}
    /\ Len(runs) < MaxRuns
    /\ \E c \in DetSimulators : DoConstruct(c)
    /\ UNCHANGED notEngine

(* Another simulator is constructed before this one runs. *)
ConstructOther ==
    /\ pc = "constructed"
    /\ \E c \in DetSimulators :
           rng' = IF c.seed = {} THEN rng ELSE SeedState(The(c.seed))
    /\ UNCHANGED <<contributed, year_start_balance, simulator, args, pc, sim,
                   year_idx, month, balance, year_withdrawal_budget,
                   year_payout_gross, current_monthly_contrib, paths,
                   payouts_paths, writes, deductions, last, result, runs>>
    /\ UNCHANGED notEngine

SimulateNext ==
    /\ pc \in {"constructed", "done"}
    /\ Len(runs) < MaxRuns
    /\ \E a \in DetArgs : DoSimulateBegin(a)
    /\ UNCHANGED notEngine

NextDet ==
    \/ ConstructNext
    \/ ConstructOther
    \/ SimulateNext
    \/ PathBegin
    \/ YearBegin
    \/ MonthStep
    \/ YearEnd
    \/ Aggregate

SpecDet == Init /\ [][NextDet]_vars

(***************************************************************************)
(* The loan calculator called directly.                                     *)
(***************************************************************************)
StartingLoans ==
    { ("Mart" :> R(0)) @@ ("Kerli" :> R(10)),
      ("Mart" :> R(4)) @@ ("Laps1" :> R(0)),
      ("Laps1" :> R(0)) }

YearLists == { [i \in 0 .. n - 1 |-> FirstYear + i] : n \in 1 .. MaxYears }

PayoutLists(n) ==
    {<<>>} \cup [0 .. n - 1 -> {R(0), R(3), R(20)}]

Policies ==
    { [stop |-> {}, change |-> {}, by |-> R(1)],
      [stop |-> {FirstYear}, change |-> {}, by |-> R(1)],
      [stop |-> {FirstYear + 1}, change |-> {}, by |-> R(1)],
      [stop |-> {}, change |-> {FirstYear + 1}, by |-> R(2)],
      [stop |-> {FirstYear + 1}, change |-> {FirstYear}, by |-> R(2)] }

(* also a rental that is marked sold but not included *)
LoanRentals ==
    RentalOptions
        \cup {{[include |-> FALSE, sell |-> TRUE, sale_year |-> FirstYear,
                monthly_income |-> R(1), mart_share |-> R(3),
                kerli_share |-> R(2)]}}

LoanArgs ==
    { [starting_loans |-> l, contributions |-> c, years |-> y, rental |-> r,
       start_month |-> m, payouts |-> w, withdrawal_mode |-> mode,
       contribution_end_year |-> pol.stop,
       contribution_change_year |-> pol.change,
       contribution_change_factor |-> pol.by] :
        l \in StartingLoans, c \in ContributionLists, y \in YearLists,
        r \in LoanRentals, m \in {1, 8, 12},
        w \in UNION {PayoutLists(n) : n \in 1 .. MaxYears},
        mode \in {"loan", "dividend"}, pol \in Policies }

LoanBegin ==
    /\ lpc = "idle"
    /\ \E a \in LoanArgs :
           /\ a.payouts = <<>> \/ DOMAIN a.payouts = DOMAIN a.years
           /\ DoLoanBegin(a)
    /\ UNCHANGED notLoan

(* Nothing here reads the generator: one initial state of it is kept. *)
LoanCallInit == Init /\ rng = 0

NextLoan ==
    \/ LoanBegin
    \/ LoanAccrue
    \/ LoanRepay
    \/ LoanPaydown
    \/ LoanSnapshot

SpecLoan == LoanCallInit /\ [][NextLoan]_vars

(***************************************************************************)
(* validate_portfolio called directly.                                      *)
(***************************************************************************)
MaxEtfs == 2

Entries ==
    [isin : {"", " ", "A"},
     pct : {<<-1, 20>>, R(0), <<1, 20>>, <<3, 20>>, <<999, 20>>, R(50), R(100),
            <<2003, 20>>}]

EtfLists == UNION {[1 .. n -> Entries] : n \in 0 .. MaxEtfs}

ValidateCall ==
    /\ etfs = {}
    /\ \E list \in EtfLists : etfs' = {list}
    /\ UNCHANGED verdict
    /\ UNCHANGED notValidate

ValidateReturn ==
    /\ etfs # {} /\ verdict = {}
    /\ verdict' = {ValidatePortfolio(The(etfs))}
    /\ UNCHANGED etfs
    /\ UNCHANGED notValidate

NextValidate == ValidateCall \/ ValidateReturn

SpecValidate == LoanCallInit /\ [][NextValidate]_vars

(***************************************************************************)
(* One request served from parsing to the answer.                           *)
(***************************************************************************)
Item(i, w) == [isin |-> i, allocation |-> w]

EtfFields ==
    { {},
      {<<>>},
      {<<Item("A", R(100))>>},
      {<<Item("A", R(50)), Item("B", R(50))>>},
      {<<Item("A", R(100)), Item("B", R(0))>>},
      {<<Item(" ", R(100))>>},
      {<<Item("A", R(50))>>},
      {<<Item("A", R(150)), Item("B", R(-50))>>} }

PersonFields == { <<>>, <<Person("Mart", R(1), R(4)), Person("Kerli", R(2), R(10))>> }

Withdrawals ==
    { [rate |-> R(0), mode |-> {}], [rate |-> R(50), mode |-> {}],
      [rate |-> R(50), mode |-> {"loan"}], [rate |-> R(50), mode |-> {"dividend"}] }

(* the stop and change fields; a change is requested in plain requests only *)
RequestPolicies ==
    { [stop |-> {}, change |-> {}, by |-> R(1)],
      [stop |-> {FirstYear}, change |-> {}, by |-> R(1)],
      [stop |-> {FirstYear + 1}, change |-> {}, by |-> R(1)],
      [stop |-> {}, change |-> {FirstYear + 1}, by |-> R(2)],
      [stop |-> {FirstYear + 1}, change |-> {FirstYear}, by |-> R(2)] }

RequestFields ==
    { [persons |-> ps, starting_capital |-> R(0), etfs |-> e,
       include_rental |-> rent, repay_mortgage |-> rent, sale_year |-> FirstYear,
       rental_income |-> R(1),
       adult1_mortgage_share |-> R(3), adult2_mortgage_share |-> R(2),
       start_year |-> FirstYear, start_month |-> m, end_year |-> ey,
       annual_costs |-> R(0),
       withdrawal_rate |-> w.rate, withdrawal_start_year |-> FirstYear,
       withdrawal_mode |-> w.mode,
       contribution_end_year |-> pol.stop,
       contribution_change_year |-> pol.change,
       contribution_change_factor |-> pol.by] :
        ps \in PersonFields, e \in EtfFields, rent \in BOOLEAN, m \in {1, 8},
        ey \in {FirstYear, FirstYear + MaxYears - 1}, w \in Withdrawals,
        pol \in RequestPolicies }

RequestParams ==
    { q \in RequestFields :
        q.contribution_change_year = {}
            \/ (~q.include_rental /\ q.withdrawal_rate = R(0)) }

Request ==
    /\ rpc = "idle"
    /\ \E q \in RequestParams : DoRequest(q)

NextRequest ==
    \/ Request
    \/ AppValidate
    \/ AppFetch
    \/ AppConstruct
    \/ AppSimulate
    \/ PathBegin
    \/ YearBegin
    \/ MonthStep
    \/ YearEnd
    \/ Aggregate
    \/ AppLoans
    \/ LoanAccrue
    \/ LoanRepay
    \/ LoanPaydown
    \/ LoanSnapshot
    \/ AppRespond

SpecRequest == Init /\ [][NextRequest]_vars

(***************************************************************************)
(* Properties of the path engine.                                           *)
(***************************************************************************)
Running == pc \in {"path", "year", "month", "done"}
Aggregated == pc = "done" /\ result # <<>>
Result == result[1]

(* C1: any two completed simulate() calls whose simulators were given the   *)
(* same seed and the same inputs produced the same trajectory and           *)
(* withdrawal matrices, whatever else the process did in between.           *)
C1_SeededRunsAgree ==
    \A i, j \in 1 .. Len(runs) :
        (/\ runs[i].simulator.seed # {}
         /\ runs[i].simulator = runs[j].simulator
         /\ runs[i].args = runs[j].args)
        => /\ runs[i].paths = runs[j].paths
           /\ runs[i].payouts_paths = runs[j].payouts_paths

(* C2: both matrices have n_simulations >= 1 rows and                       *)
(* end_year - start_year + 1 columns, the year sequence is                  *)
(* start_year..end_year in increasing order, and when the percentiles have  *)
(* been computed every cell has been written, once.                         *)
HasShape(mat, n, m) ==
    /\ DOMAIN mat = 0 .. n - 1
    /\ \A i \in 0 .. n - 1 : DOMAIN mat[i] = 0 .. m - 1

C2_MatrixShape ==
    Running =>
        LET n == Simulator.n_simulations
            m == Args.end_year - Args.start_year + 1
        IN  /\ n >= 1
            /\ HasShape(paths, n, m)
            /\ HasShape(payouts_paths, n, m)
            /\ HasShape(writes, n, m)
            /\ \A i \in 0 .. n - 1 : \A j \in 0 .. m - 1 : writes[i][j] <= 1
            /\ Aggregated =>
                   /\ DOMAIN Result.years = 0 .. m - 1
                   /\ \A j \in 0 .. m - 1 : Result.years[j] = Args.start_year + j
                   /\ \A j \in 0 .. m - 1 : DOMAIN Result.p50 = 0 .. m - 1
                   /\ \A i \in 0 .. n - 1 : \A j \in 0 .. m - 1 : writes[i][j] = 1

C2_Witness ==
    /\ Aggregated
    /\ Simulator.n_simulations = MaxSims
    /\ Args.end_year = Args.start_year + MaxYears - 1
    /\ Args.start_month = 8
    /\ \A i \in 0 .. MaxSims - 1 : \A j \in 0 .. MaxYears - 1 : writes[i][j] = 1

(* C3: with return 0, volatility 0, no cost, no withdrawal, no rental and   *)
(* no stop/scale policy every recorded year-end balance is the starting     *)
(* capital plus the monthly contribution total times the months simulated   *)
(* so far, and every percentile and the mean of a year equal that value.    *)
PlainScenario ==
    /\ Simulator.portfolio_return = Zero
    /\ Simulator.portfolio_volatility = Zero
    /\ \A r \in Simulator.rental : ~r.include
    /\ Args.annual_costs = Zero
    /\ Args.withdrawal_rate = Zero
    /\ Args.contribution_end_year = {}
    /\ Args.contribution_change_year = {}

MonthsSoFar(j) == (12 - Args.start_month + 1) + 12 * j

PlainBalance(j) ==
    RAdd(Args.starting_capital,
         RMul(MonthlySum(Simulator.contributions), R(MonthsSoFar(j))))

C3_PlainBalances ==
    (Running /\ PlainScenario) =>
        /\ \A i \in DOMAIN paths : \A j \in DOMAIN paths[i] :
               writes[i][j] = 1 => paths[i][j] = PlainBalance(j)
        /\ Aggregated =>
               \A j \in DOMAIN Result.years :
                   /\ Result.mean[j] = PlainBalance(j)
                   /\ \A q \in 0 .. 100 : Result.percentiles[q][j] = PlainBalance(j)
                   /\ Result.p2[j] = PlainBalance(j) /\ Result.p10[j] = PlainBalance(j)
                   /\ Result.p50[j] = PlainBalance(j) /\ Result.p90[j] = PlainBalance(j)
                   /\ Result.p98[j] = PlainBalance(j)

C3_Witness ==
    /\ Aggregated /\ PlainScenario
    /\ Simulator.contributions = <<Contrib("Mart", 1)>>
    /\ Simulator.n_simulations = MaxSims
    /\ Args.starting_capital = Zero
    /\ Args.start_month = 1 /\ Args.end_year = Args.start_year
    /\ \A i \in 0 .. MaxSims - 1 : paths[i][0] = R(12)
    /\ Result.p50[0] = R(12)

(* C4: for a financed-by-pool rental whose sale year is simulated, every    *)
(* path deducts the mortgage shares exactly once, at the July step of the   *)
(* sale year, and the rental income is credited at exactly the simulated    *)
(* months from July of the sale year onward.                                *)
SaleYearSimulated ==
    /\ PoolFinanced(Simulator)
    /\ \E r \in Simulator.rental :
           Args.start_year <= r.sale_year /\ r.sale_year <= Args.end_year

SaleYear == The(Simulator.rental).sale_year

C4_MortgageOnceInJuly ==
    (Running /\ SaleYearSimulated) =>
        /\ last.deducted => last.year = SaleYear /\ last.month = 6
        /\ last # NoStep =>
               (last.credited <=>
                    \/ last.year > SaleYear
                    \/ last.year = SaleYear /\ last.month >= 6)
        /\ deductions <= 1
        /\ (pc \in {"path", "done"} /\ sim > 0) => deductions = 1

(* C8: in every year p2 <= p10 <= p50 <= p90 <= p98 <= the largest balance  *)
(* of the year, p0 and p100 are the smallest and largest balance and bound  *)
(* the five curated percentiles, and each percentile is the linear          *)
(* interpolation between its two neighbouring order statistics.             *)
IsMax(v, col) == (\E i \in DOMAIN col : col[i] = v) /\ (\A i \in DOMAIN col : RLeq(col[i], v))
IsMin(v, col) == (\E i \in DOMAIN col : col[i] = v) /\ (\A i \in DOMAIN col : RLeq(v, col[i]))

(* the number of values of col that are less than v, or at most v *)
Below(v, col) == Cardinality({i \in DOMAIN col : RLt(col[i], v)})
AtMost(v, col) == Cardinality({i \in DOMAIN col : RLeq(col[i], v)})

(* the k-th smallest value of col, k = 0 .. Len(col) - 1 *)
OrderStatistic(col, k) ==
    CHOOSE v \in {col[i] : i \in DOMAIN col} :
        Below(v, col) <= k /\ k < AtMost(v, col)

(* v is the linear interpolation at rank q/100 * (n - 1) *)
Interpolates(v, col, q) ==
    LET n == Len(col)
        pos == q * (n - 1)
        lo == pos \div 100
        hi == IF lo + 1 < n THEN lo + 1 ELSE lo
    IN  RMul(R(100), v)
          = RAdd(RMul(R(100 - (pos % 100)), OrderStatistic(col, lo)),
                 RMul(R(pos % 100), OrderStatistic(col, hi)))

C8_PercentilesOrdered ==
    Aggregated =>
        \A j \in DOMAIN Result.years :
            LET col == Column(paths, Simulator.n_simulations, j)
                lo == Result.percentiles[0][j]
                hi == Result.percentiles[100][j]
            IN  /\ RLeq(Result.p2[j], Result.p10[j])
                /\ RLeq(Result.p10[j], Result.p50[j])
                /\ RLeq(Result.p50[j], Result.p90[j])
                /\ RLeq(Result.p90[j], Result.p98[j])
                /\ IsMin(lo, col) /\ IsMax(hi, col)
                /\ RLeq(lo, Result.p2[j]) /\ RLeq(Result.p98[j], hi)
                /\ \A q \in {0, 2, 10, 50, 90, 98, 100} :
                       Interpolates(Result.percentiles[q][j], col, q)
                /\ Result.p2[j] = Result.percentiles[2][j]
                /\ Result.p10[j] = Result.percentiles[10][j]
                /\ Result.p50[j] = Result.percentiles[50][j]
                /\ Result.p90[j] = Result.percentiles[90][j]
                /\ Result.p98[j] = Result.percentiles[98][j]

C8_Witness ==
    /\ Aggregated
    /\ Simulator.n_simulations = MaxSims
    /\ \E j \in DOMAIN Result.years :
           /\ RLt(paths[1][j], paths[0][j])
           /\ RLt(Result.p2[j], Result.p10[j])
           /\ RLt(Result.p90[j], Result.p98[j])
           /\ RLt(Result.p98[j], Result.percentiles[100][j])

(***************************************************************************)
(* Properties of the loan ledger.                                           *)
(***************************************************************************)
Step3Done == lpc = "snapshot"
PositivePayout ==
    /\ LArgs.withdrawal_mode = "loan"
    /\ lyear_idx \in DOMAIN LArgs.payouts
    /\ RLt(Zero, LArgs.payouts[lyear_idx])

(* C6: in loan mode with a positive median withdrawal w, a positive total T *)
(* becomes max(0, T - w), never more than T and never negative; a total     *)
(* that is zero or negative leaves every balance as it was, and the factor  *)
(* is only ever computed by dividing by a positive total.                   *)
C6_PaydownTotal ==
    (Step3Done /\ PositivePayout) =>
        LET T == Total(prev_loans)
            w == LArgs.payouts[lyear_idx]
        IN  /\ RLt(Zero, T) =>
                   /\ Total(current_loans) = RMax(Zero, RSub(T, w))
                   /\ RLeq(Total(current_loans), T)
                   /\ RLeq(Zero, Total(current_loans))
            /\ RLeq(T, Zero) => current_loans = prev_loans /\ factor = {}
            /\ factor # {} => total_loan = {T} /\ RLt(Zero, T)

C6_Witness ==
    /\ Step3Done /\ PositivePayout
    /\ RLt(Zero, Total(prev_loans))
    /\ RLt(Total(prev_loans), LArgs.payouts[lyear_idx])
    /\ Total(current_loans) = Zero
    /\ current_loans # prev_loans

(* C7 as claimed: step 3 leaves no participant's balance greater than it    *)
(* found it.                                                                *)
C7_EveryLoanScaledDown ==
    Step3Done => \A p \in Persons : RLeq(current_loans[p], prev_loans[p])

(* C7 as amended: when step 3 scales the ledger, every balance is           *)
(* multiplied by one factor f with 0 <= f < 1; a balance that was zero or   *)
(* positive does not grow, and a negative balance moves toward zero.        *)
C7_ScaledTowardZero ==
    (Step3Done /\ factor # {}) =>
        LET f == The(factor)
        IN  /\ RLeq(Zero, f) /\ RLt(f, R(1))
            /\ \A p \in Persons :
                   /\ current_loans[p] = RMul(prev_loans[p], f)
                   /\ RLeq(Zero, prev_loans[p]) =>
                          /\ RLeq(current_loans[p], prev_loans[p])
                          /\ RLeq(Zero, current_loans[p])
                   /\ RLt(prev_loans[p], Zero) =>
                          /\ RLt(prev_loans[p], current_loans[p])
                          /\ RLeq(current_loans[p], Zero)

C7_Witness ==
    /\ Step3Done /\ factor # {}
    /\ RLt(Zero, The(factor))
    /\ \E p \in Persons : RLt(prev_loans[p], Zero) /\ RLt(prev_loans[p], current_loans[p])
    /\ \E p \in Persons : RLt(Zero, prev_loans[p]) /\ RLt(current_loans[p], prev_loans[p])

(***************************************************************************)
(* Properties of portfolio validation.                                      *)
(***************************************************************************)
Returned == The(verdict)
Given == The(etfs)

(* the entries whose identifier is not empty (blank) *)
Named == {i \in 1 .. Len(Given) : Given[i].isin \notin {"", " "}}

RECURSIVE PctSum(_)
PctSum(S) ==
    IF S = {} THEN Zero
    ELSE LET i == CHOOSE k \in S : TRUE
         IN  RAdd(Given[i].pct, PctSum(S \ {i}))

(* C10: validate_portfolio returns valid exactly when, after dropping the   *)
(* entries with an empty identifier, the list is non-empty, every           *)
(* allocation is between 0 and 100 inclusive and the allocations sum to 100 *)
(* within 0.1; otherwise it returns invalid with a non-empty reason.        *)
C10_ValidExactly ==
    verdict # {} =>
        LET fine == /\ Named # {}
                    /\ \A i \in Named :
                           RLeq(R(0), Given[i].pct) /\ RLeq(Given[i].pct, R(100))
                    /\ RLeq(RSub(R(100), <<1, 10>>), PctSum(Named))
                    /\ RLeq(PctSum(Named), RAdd(R(100), <<1, 10>>))
        IN  /\ Returned.is_valid <=> fine
            /\ ~Returned.is_valid =>
                   /\ Returned.error_message # <<>>
                   /\ Returned.error_message[1] # ""
            /\ Returned.is_valid => Returned.error_message = <<>>

C10_Witness ==
    /\ verdict # {}
    /\ ~Returned.is_valid
    /\ Len(Given) = 2 /\ Named = {1, 2}
    /\ PctSum(Named) = RAdd(R(100), <<1, 10>>)
    /\ Returned.error_message[1] = "Invalid allocation for "

(***************************************************************************)
(* Properties of a simulation request.                                      *)
(***************************************************************************)
Answer == The(response)
ValidationOk == verdict # {} /\ Returned.is_valid
NotFound == {i \in 1 .. Len(fetched) : fetched[i] = {}}
AllFetched == Len(fetched) = Len(etf_list) /\ NotFound = {}
SimulationWork == pc # "idle" \/ result # <<>> \/ lpc # "idle"

(* C9: the simulator is constructed, and paths are stepped, only after the  *)
(* portfolio validated and every instrument was found; an invalid portfolio *)
(* or a not-found instrument ends the request with a failure that carries   *)
(* the reason and no simulation result, and no simulation work was done.    *)
C9_NoWorkBeforeInputsResolve ==
    /\ SimulationWork => ValidationOk /\ AllFetched
    /\ (verdict # {} /\ ~Returned.is_valid) \/ NotFound # {} =>
           /\ ~SimulationWork
           /\ response # {}
           /\ ~Answer.success
           /\ Answer.simulation = {} /\ Answer.loan_evolution = {}
           /\ Answer.error # <<>> /\ Answer.error[1] # ""
    /\ verdict # {} /\ ~Returned.is_valid =>
           response # {} /\ Answer.error = Returned.error_message
    /\ NotFound # {} =>
           /\ response # {}
           /\ Answer.error = <<"Could not fetch data for ", etf_list[Len(fetched)].isin>>
    /\ response # {} /\ Answer.success => ValidationOk /\ AllFetched

(* the second instrument is not found after the first was fetched *)
C9_Witness ==
    /\ rpc = "responded"
    /\ ValidationOk
    /\ Len(etf_list) = 2 /\ NotFound = {2}
    /\ Len(portfolio) = 1
    /\ ~Answer.success
    /\ ~SimulationWork

(* C5: with the contribution stop year equal to the first simulated year,   *)
(* step 1 of the first year adds each participant's monthly contribution    *)
(* times the active months of that year and step 1 of every later year adds *)
(* nothing, and the pool receives no contribution in any later year.        *)
C5_FirstYearAccruesThenStops ==
    /\ (/\ largs # {} /\ lpc = "repay"
        /\ LArgs.contribution_end_year = {LArgs.years[0]}) =>
           \A p \in Persons :
               RSub(current_loans[p], prev_loans[p]) =
                   IF lyear_idx = 0
                   THEN RMul(ContribGet(LArgs.contributions, p), R(months))
                   ELSE Zero
    /\ (/\ args # {} /\ last # NoStep
        /\ Args.contribution_end_year = {Args.start_year}
        /\ last.year > Args.start_year) =>
           current_monthly_contrib = Zero

(***************************************************************************)
(* Properties of the paths among each other.                                *)
(***************************************************************************)
(* The generator state the next month step reads was left by the month     *)
(* step before it, if there was one, and by the seeding otherwise.          *)
AboutToDraw == pc = "month" /\ month < 12

(* C11: a path's step reads no state that another path's step wrote, the    *)
(* generator state included, and the rows of the paths not yet started are  *)
(* untouched: what a path records does not depend on the paths before it.   *)
C11_PathsShareNothing ==
    /\ (AboutToDraw /\ last # NoStep) => last.path = sim
    /\ Running =>
           \A i \in DOMAIN writes : \A j \in DOMAIN writes[i] :
               i > sim => writes[i][j] = 0

(***************************************************************************)
(* Properties of the withdrawals.                                           *)
(***************************************************************************)
InYear == pc = "month"
Withdrawing ==
    Year >= Args.withdrawal_start_year /\ RLt(Zero, Args.withdrawal_rate)
MonthsDone == month - FirstMonth(Args, Year)
TwelfthOfRate(bal) == RDiv(RMul(Args.withdrawal_rate, bal), R(12))

(* the balance a month step leaves when it withdraws w *)
Compounded(w) ==
    LET inflow == RSub(current_monthly_contrib', RDiv(Args.annual_costs, R(12)))
        rent == IF last'.credited THEN The(Simulator.rental).monthly_income ELSE Zero
        lump == IF last'.deducted
                THEN RAdd(The(Simulator.rental).mart_share,
                          The(Simulator.rental).kerli_share)
                ELSE Zero
        before == RSub(RAdd(RSub(RAdd(balance, inflow), w), rent), lump)
        draw == RAdd(RDiv(Simulator.portfolio_return, R(12)),
                     RMul(Simulator.portfolio_volatility, R(rng - 1)))
    IN  RAdd(before, RMul(before, draw))

MonthStepped == pc = "month" /\ pc' = "month" /\ month' = month + 1

(* C12 as claimed: in a withdrawing year every month withdraws 1/12 of     *)
(* rate x start-of-year balance, zero for a zero balance and negative for a *)
(* negative one, and the year's gross withdrawal is their sum.              *)
C12_NegativeBudgetWithdrawn ==
    (InYear /\ Withdrawing) =>
        year_payout_gross = RMul(R(MonthsDone), TwelfthOfRate(year_start_balance))

(* C12 as amended: the budget is rate x start-of-year balance; a zero or    *)
(* negative budget withdraws nothing in any month of the year, a positive   *)
(* one 1/12 of it each month; the balance is not clamped and a negative one *)
(* keeps compounding.                                                       *)
C12_NothingWithdrawnFromNonPositive ==
    /\ [](InYear /\ Withdrawing =>
            /\ year_withdrawal_budget = RMul(year_start_balance, Args.withdrawal_rate)
            /\ year_payout_gross =
                   IF RLt(Zero, year_start_balance)
                   THEN RMul(R(MonthsDone), TwelfthOfRate(year_start_balance))
                   ELSE Zero)
    /\ [][MonthStepped /\ Withdrawing =>
              balance' = Compounded(IF RLt(Zero, year_start_balance)
                                    THEN TwelfthOfRate(year_start_balance)
                                    ELSE Zero)]_vars

(* a withdrawing year that began with a negative balance has run through    *)
C12_Witness ==
    /\ InYear /\ month = 12
    /\ Withdrawing
    /\ RLt(year_start_balance, Zero)
    /\ year_payout_gross = Zero
    /\ RLt(balance, year_start_balance)

(***************************************************************************)
(* Properties of the contribution policy.                                   *)
(***************************************************************************)
StopApplies(a, year) ==
    a.contribution_end_year # {} /\ year >= The(a.contribution_end_year)
ScaleApplies(a, year) ==
    a.contribution_change_year # {} /\ year >= The(a.contribution_change_year)

(* what the claim says is used of the base amount in the year *)
UsedAsStated(base, used, a, year) ==
    /\ StopApplies(a, year) /\ ScaleApplies(a, year) => used = Zero
    /\ ~StopApplies(a, year) /\ ScaleApplies(a, year) =>
           used = RMul(base, a.contribution_change_factor)
    /\ ~StopApplies(a, year) /\ ~ScaleApplies(a, year) => used = base

Step1Done == lpc = "repay"

(* C13: in the month step of the engine and in step 1 of the ledger, a year *)
(* in which both the stop and the change policy apply uses 0 (the factor is *)
(* not applied), a year in which only the change applies uses the base      *)
(* amount times the factor, and a year in which neither applies uses the    *)
(* base amount.                                                             *)
C13_StopBeforeScale ==
    /\ (args # {} /\ simulator # {} /\ last # NoStep) =>
           UsedAsStated(MonthlySum(Simulator.contributions),
                        current_monthly_contrib, Args, last.year)
    /\ Step1Done =>
           \A p \in Persons :
               \E used \in {ContribGet(LArgs.contributions, p), Zero,
                             RMul(ContribGet(LArgs.contributions, p),
                                  LArgs.contribution_change_factor)} :
                   /\ UsedAsStated(ContribGet(LArgs.contributions, p), used,
                                   LArgs, LYear)
                   /\ current_loans[p] = RAdd(prev_loans[p], RMul(used, R(months)))

(* both policies apply in a year of the ledger, after the engine ran with   *)
(* them, and nothing was accrued                                            *)
C13_Witness ==
    /\ Step1Done
    /\ StopApplies(LArgs, LYear) /\ ScaleApplies(LArgs, LYear)
    /\ LArgs.contribution_change_factor = R(2)
    /\ \E p \in Persons : RLt(Zero, ContribGet(LArgs.contributions, p))
    /\ current_loans = prev_loans
    /\ current_monthly_contrib = Zero
    /\ StopApplies(Args, last.year) /\ ScaleApplies(Args, last.year)

(***************************************************************************)
(* Properties of the yearly withdrawal budget.                              *)
(***************************************************************************)
YearComplete == pc = "month" /\ month = 12
ActiveMonths == 12 - FirstMonth(Args, Year)
YearShare(bal) ==
    RMul(Norm(ActiveMonths, 12), RMul(Args.withdrawal_rate, bal))
YearStored == pc = "month" /\ month = 12 /\ pc' # "month"

(* C14 as claimed: the gross withdrawal of a completed year is (active      *)
(* months / 12) x rate x start-of-year balance in a withdrawing year and 0  *)
(* in a year before the withdrawal start year.                              *)
C14_GrossIsShareOfStartBalance ==
    YearComplete =>
        year_payout_gross =
            IF Withdrawing THEN YearShare(year_start_balance) ELSE Zero

(* C14 as amended: the budget is set once from the start-of-year balance    *)
(* and no month step changes it; every month step of the year withdraws the *)
(* same amount, budget / 12 of a positive budget and nothing otherwise; the *)
(* gross withdrawal of a completed year is (active months / 12) x rate x    *)
(* start-of-year balance when the year withdraws and began with a positive  *)
(* balance, and 0 otherwise; the matrix stores it, net in dividend mode.    *)
C14_BudgetFixedPerYear ==
    /\ [](InYear =>
            year_withdrawal_budget =
                IF Withdrawing
                THEN RMul(Args.withdrawal_rate, year_start_balance) ELSE Zero)
    /\ [](YearComplete =>
            year_payout_gross =
                IF Withdrawing /\ RLt(Zero, year_start_balance)
                THEN YearShare(year_start_balance) ELSE Zero)
    /\ [][MonthStepped =>
              /\ year_withdrawal_budget' = year_withdrawal_budget
              /\ year_start_balance' = year_start_balance
              /\ RSub(year_payout_gross', year_payout_gross) =
                     IF RLt(Zero, year_withdrawal_budget)
                     THEN RDiv(year_withdrawal_budget, R(12)) ELSE Zero]_vars
    /\ [][YearStored =>
              payouts_paths'[sim][year_idx] =
                  IF Args.withdrawal_mode = "dividend"
                  THEN RMul(<<78, 100>>, year_payout_gross)
                  ELSE year_payout_gross]_vars

(* a withdrawing year that began with a positive balance has run through,   *)
(* the balance having moved away from where it began                        *)
C14_Witness ==
    /\ YearComplete /\ Withdrawing
    /\ RLt(Zero, year_start_balance)
    /\ RLt(balance, Zero)
    /\ year_payout_gross = YearShare(year_start_balance)
    /\ RLt(Zero, year_payout_gross)

(***************************************************************************)
(* Properties of the mortgage-share repayment of the ledger.                *)
(***************************************************************************)
Step2Done == lpc = "paydown"

(* the balance the year began with, and what step 1 makes of it *)
YearOpening(p) ==
    IF lyear_idx = 0 THEN LArgs.starting_loans[p]
    ELSE loan_evolution[p][lyear_idx]
AfterAccrual(p) ==
    RAdd(YearOpening(p), RMul(LoanMonthly(LArgs, p, LYear), R(months)))

SaleYearOfPoolRental ==
    /\ LArgs.rental # {}
    /\ The(LArgs.rental).include /\ The(LArgs.rental).sell
    /\ The(LArgs.rental).sale_year = LYear

ShareOf(p) ==
    IF p = "Mart" THEN The(LArgs.rental).mart_share
    ELSE IF p = "Kerli" THEN The(LArgs.rental).kerli_share
    ELSE Zero

(* C15: step 2 finds the ledger as step 1 left it and runs before step 3;   *)
(* in the sale year of a financed-by-pool rental it takes the configured    *)
(* share from Mart and from Kerli, as far as they are in the ledger, and it *)
(* changes no other balance; in any other year it changes nothing; it never *)
(* adds a participant to the ledger.                                        *)
C15_RepaymentFrame ==
    /\ lpc # "idle" =>
           /\ DOMAIN current_loans = DOMAIN LArgs.starting_loans
           /\ DOMAIN loan_evolution = DOMAIN LArgs.starting_loans
    /\ Step2Done =>
           /\ factor = {} /\ total_loan = {}
           /\ \A p \in Persons :
                  /\ prev_loans[p] = AfterAccrual(p)
                  /\ current_loans[p] =
                         IF SaleYearOfPoolRental
                         THEN RSub(prev_loans[p], ShareOf(p))
                         ELSE prev_loans[p]
    /\ Step3Done =>
           \A p \in Persons :
               prev_loans[p] =
                   IF SaleYearOfPoolRental
                   THEN RSub(AfterAccrual(p), ShareOf(p))
                   ELSE AfterAccrual(p)

(* the sale year with Mart in the ledger and Kerli not in it *)
C15_Witness ==
    /\ Step2Done /\ SaleYearOfPoolRental
    /\ Persons = {"Mart", "Laps1"}
    /\ prev_loans["Mart"] # YearOpening("Mart")
    /\ current_loans["Mart"] = RSub(prev_loans["Mart"], R(3))
    /\ current_loans["Laps1"] = prev_loans["Laps1"]

(***************************************************************************)
(* Properties of the ledger against the pool.                               *)
(***************************************************************************)
(* what step 1 added to the ledger in all *)
LedgerAccrual == RSub(Total(current_loans), Total(prev_loans))

SameParticipants ==
    /\ \A i, j \in 1 .. Len(LArgs.contributions) :
           LArgs.contributions[i].name = LArgs.contributions[j].name => i = j
    /\ {LArgs.contributions[i].name : i \in 1 .. Len(LArgs.contributions)} = Persons
    /\ LArgs.contributions = Simulator.contributions

(* C16: for one contribution set with unique names that are the ledger's    *)
(* participants, one start month and one stop and change policy, what step  *)
(* 1 adds to the ledger in a year, summed over the participants, is what    *)
(* every path of the engine added to the pool balance in that year.         *)
C16_LedgerAccrualIsPoolAccrual ==
    (Step1Done /\ args # {} /\ SameParticipants) =>
        /\ LArgs.years = Years(Args)
        /\ \A i \in DOMAIN contributed :
               contributed[i][lyear_idx] = LedgerAccrual

(* a partial first year in which contributions were made *)
C16_Witness ==
    /\ Step1Done /\ args # {} /\ SameParticipants
    /\ lyear_idx = 0 /\ months = 5
    /\ Len(LArgs.contributions) = 4
    /\ RLt(Zero, LedgerAccrual)
    /\ contributed[MaxSims - 1][0] = LedgerAccrual

(***************************************************************************)
(* Properties of the withdrawal mode within a request.                      *)
(***************************************************************************)
BothCalled == rpc \in {"loans", "responded"} /\ args # {} /\ largs # {}

(* C17: the engine and the ledger of one request run with the same          *)
(* withdrawal mode, also when the request names none: where the engine      *)
(* recorded a positive loan-mode withdrawal for the year the ledger scales  *)
(* a positive total down with it, and where the engine recorded dividend-   *)
(* mode withdrawals the ledger scales nothing.                              *)
C17_SameWithdrawalMode ==
    BothCalled =>
        /\ LArgs.withdrawal_mode = Args.withdrawal_mode
        /\ LArgs.payouts = Result.payouts_p50
        /\ Step3Done =>
               /\ (/\ Args.withdrawal_mode = "loan"
                   /\ RLt(Zero, Result.payouts_p50[lyear_idx])
                   /\ RLt(Zero, Total(prev_loans))) => factor # {}
               /\ Args.withdrawal_mode = "dividend" => factor = {}

====
